---- MODULE Spec2Model ----
(***************************************************************************)
(* Model of the streaming pipeline of the agent:                           *)
(*   Agent.run -> Agent._agentic_loop -> LLMClient.chat_completion         *)
(*             -> LLMClient._stream_response                               *)
(* The transport (the AsyncOpenAI client) is the environment: it opens a   *)
(* stream or raises, then delivers chunks, raises, or is exhausted.        *)
(* Around and beside the pipeline: the CLI of main.py (CliSpec), a second  *)
(* request through the same Agent (ReplaySpec), the ContextManager         *)
(* (CtxSpec), the request of a chat_completion call (ReqSpec), coroutines  *)
(* sharing the handle of one LLMClient (ClientSpec) and the addition of    *)
(* TokenUsage objects (UsageSpec).                                         *)
(*                                                                         *)
(* Encodings.  A Python str holding text is a sequence of one-character    *)
(* strings; a tool-call arguments string is a sequence of JSON tokens.     *)
(* For both, None and "" are the empty sequence (the code only tests them  *)
(* for truthiness).  An optional identifier (id, name, role, finish        *)
(* reason) is a string, None being the distinguished value None.  An       *)
(* optional TokenUsage is a sequence of length 0 (None) or 1.              *)
(***************************************************************************)
EXTENDS Integers, Sequences, FiniteSets, TLC

VARIABLES
    pc,             \* position of the pipeline
    maxRetries,     \* LLMClient._max_retries
    message,        \* the user message given to Agent.run
    client,         \* LLMClient._client: "none", "open"
    attempt,        \* chat_completion: the for loop's variable
    usage,          \* _stream_response: local usage
    finish_reason,  \* _stream_response: local finish_reason
    tool_calls,     \* _stream_response: local tool_calls (dict, insertion order)
    response_text,  \* _agentic_loop: local response_text
    final_response, \* run: local final_response
    streamEvents,   \* every StreamEvent chat_completion has yielded
    agentEvents,    \* every AgentEvent run has yielded
    clock,          \* seconds slept so far (asyncio.sleep)
    sleepFor,       \* the argument of the asyncio.sleep in progress
    log,            \* one record per attempt: what the transport did
    handles,        \* every AsyncOpenAI handle created: "open", "closed"
    cli,            \* main.py: the position of the CLI, its result, its exit
    prior,          \* what an earlier run of the same Agent saw and yielded
    ctx,            \* a ContextManager: _system_prompt, _messages
    call,           \* a direct chat_completion call: arguments and request
    tasks,          \* coroutines sharing one LLMClient: positions, calls made
    usages          \* TokenUsage objects: operands and the sums made of them

\* The variables of the pipeline proper.
pipeVars == <<pc, maxRetries, message, client, attempt, usage, finish_reason,
              tool_calls, response_text, final_response, streamEvents,
              agentEvents, clock, sleepFor, log, handles>>

vars == <<pc, maxRetries, message, client, attempt, usage, finish_reason,
          tool_calls, response_text, final_response, streamEvents,
          agentEvents, clock, sleepFor, log, handles, cli, prior, ctx, call,
          tasks, usages>>

-----------------------------------------------------------------------------
(* Bounds of the model *)

MaxRetries == 3

\* The size of a run: the retries the client is configured for plus the
\* chunks the transport delivers, over all attempts, stay below MaxWork.
MaxWork == 3

-----------------------------------------------------------------------------
(* Values *)

None == "None"

NoUsage == <<>>

Messages == {"Hello"}

\* JSON tokens of a tool call's arguments string.
LB == "{"

RB == "}"

KQ == "\"q\":"

VC == "\"cats\""

\* The exception classes chat_completion tells apart, most specific first.
ErrKinds == {"RateLimitError", "APIConnectionError", "APIError", "Exception"}

RECURSIVE Flatten(_)
Flatten(ss) == IF ss = <<>> THEN <<>> ELSE Head(ss) \o Flatten(Tail(ss))

Last(s) == s[Len(s)]

-----------------------------------------------------------------------------
(* TokenUsage, StreamEvent, AgentEvent *)

TokenUsage(p, c, t, k) ==
    [prompt_tokens |-> p, completion_tokens |-> c, total_tokens |-> t,
     cached_tokens |-> k]

NoArguments == [ok |-> TRUE, pairs |-> {}]

Truthy(x) == x # None /\ x # ""

StreamEvent(type) ==
    [type |-> type, content |-> <<>>, role |-> None, error |-> None,
     finish_reason |-> None, usage |-> NoUsage, call_id |-> None,
     name |-> None, arguments_delta |-> <<>>, arguments |-> NoArguments]

AgentEvent(type, content, error, details) ==
    [type |-> type, content |-> content, error |-> error, details |-> details]

agent_start(m) == AgentEvent("agent_start", <<>>, None, m)

agent_end(response) == AgentEvent("agent_end", response, None, None)

agent_error(error, details) == AgentEvent("agent_error", <<>>, error, details)

text_delta(content) == AgentEvent("text_delta", content, None, None)

text_complete(content) == AgentEvent("text_complete", content, None, None)

\* json.loads on the token sequences of the model: an object with no member
\* or with the one member "q": "cats".
JsonWellFormed(s) == s = <<LB, RB>> \/ s = <<LB, KQ, VC, RB>>

JsonLoads(s) == IF s = <<LB, KQ, VC, RB>> THEN {<<"q", "cats">>} ELSE {}

\* The structured parse of an arguments string; a string that does not parse
\* gives a record that carries the decode error.
parse_tool_call_arguments(s) ==
    IF JsonWellFormed(s)
    THEN [ok |-> TRUE, pairs |-> JsonLoads(s)]
    ELSE [ok |-> FALSE, pairs |-> {}]

-----------------------------------------------------------------------------
(* The wire: what the transport may deliver *)

Fragment(index, id, hasFunction, name, arguments) ==
    [index |-> index, id |-> id, function |-> hasFunction, name |-> name,
     arguments |-> arguments]

Chunk(u, choices, fin, content, role, tcs) ==
    [usage |-> u, choices |-> choices, finish_reason |-> fin,
     content |-> content, role |-> role, tool_calls |-> tcs]

WireUsage(p, t, details, k) ==
    [prompt_tokens |-> p, total_tokens |-> t, details |-> details,
     cached_tokens |-> k]

TextChunks ==
    { Chunk(NoUsage, TRUE, None, <<"H", "i">>, "assistant", <<>>),
      Chunk(NoUsage, TRUE, None, <<"!">>, None, <<>>),
      Chunk(NoUsage, TRUE, "stop", <<>>, None, <<>>) }

UsageChunks ==
    { Chunk(<<WireUsage(5, 7, TRUE, 2)>>, FALSE, None, <<>>, None, <<>>),
      Chunk(<<WireUsage(9, 12, FALSE, 0)>>, TRUE, "length", <<"?">>, None,
            <<>>) }

ToolChunks ==
    { Chunk(NoUsage, TRUE, None, <<>>, None,
            <<Fragment(0, "call_0", TRUE, "lookup", <<>>)>>),
      Chunk(NoUsage, TRUE, None, <<>>, None,
            <<Fragment(0, "call_0", TRUE, "lookup", <<LB, KQ>>)>>),
      Chunk(NoUsage, TRUE, None, <<>>, None,
            <<Fragment(0, None, TRUE, None, <<VC, RB>>)>>),
      Chunk(NoUsage, TRUE, None, <<>>, None,
            <<Fragment(1, "call_1", TRUE, "calc", <<LB, RB>>)>>) }

Chunks == TextChunks \cup UsageChunks \cup ToolChunks

-----------------------------------------------------------------------------
(* LLMClient._stream_response *)

HasIndex(tc, idx) == \E i \in 1..Len(tc) : tc[i].index = idx

ToolCallStart(call_id, name) ==
    [StreamEvent("tool_call_start") EXCEPT !.call_id = call_id, !.name = name]

ToolCallDelta(call_id, name, arguments_delta) ==
    [StreamEvent("tool_call_delta") EXCEPT !.call_id = call_id, !.name = name,
                                           !.arguments_delta = arguments_delta]

ToolCallComplete(call_id, name, arguments) ==
    [StreamEvent("tool_call_complete") EXCEPT !.call_id = call_id,
                                              !.name = name,
                                              !.arguments = arguments]

TextDeltaEvent(content, role) ==
    [StreamEvent("text_delta") EXCEPT !.content = content, !.role = role]

MessageComplete(fin, u) ==
    [StreamEvent("message_complete") EXCEPT !.finish_reason = fin, !.usage = u]

ErrorEvent(error) == [StreamEvent("error") EXCEPT !.error = error]

\* One tool_call_delta of a chunk.  Everything, the accumulation of the
\* arguments included, is inside `if idx not in tool_calls`: a fragment for an
\* index already in the table changes nothing and yields nothing.
ProcessFragment(tc, f) ==
    IF HasIndex(tc, f.index) THEN [tool_calls |-> tc, events |-> <<>>]
    ELSE
        LET id == IF Truthy(f.id) THEN f.id ELSE ""
            named == f.function /\ Truthy(f.name)
            hasArgs == f.function /\ f.arguments # <<>>
            entry == [index |-> f.index, id |-> id,
                      name |-> IF named THEN f.name ELSE "",
                      arguments |-> IF hasArgs THEN f.arguments ELSE <<>>]
        IN  [tool_calls |-> Append(tc, entry),
             events |->
                 (IF named THEN <<ToolCallStart(id, f.name)>> ELSE <<>>)
                 \o (IF hasArgs
                     THEN <<ToolCallDelta(id, f.name, f.arguments)>>
                     ELSE <<>>)]

RECURSIVE ProcessFragments(_, _)
ProcessFragments(tc, fs) ==
    IF fs = <<>> THEN [tool_calls |-> tc, events |-> <<>>]
    ELSE LET one == ProcessFragment(tc, Head(fs))
             rest == ProcessFragments(one.tool_calls, Tail(fs))
         IN  [tool_calls |-> rest.tool_calls,
              events |-> one.events \o rest.events]

\* Mutant: the usage is that of the latest chunk only.
ChunkUsageOfLatestChunk(u, chunk) ==
    IF chunk.usage # NoUsage
    THEN LET w == chunk.usage[1]
         IN  <<TokenUsage(w.prompt_tokens, 0, w.total_tokens,
                          IF w.details THEN w.cached_tokens ELSE 0)>>
    ELSE NoUsage

\* The usage after a chunk: the chunk's snapshot when it carries one.
ChunkUsage(u, chunk) ==
    IF chunk.usage # NoUsage
    THEN LET w == chunk.usage[1]
         IN  <<TokenUsage(w.prompt_tokens, 0, w.total_tokens,
                          IF w.details THEN w.cached_tokens ELSE 0)>>
    ELSE u

\* Mutant: nothing is emitted for a chunk that carries a finish reason, nor
\* for the chunks after it.
ProcessChunkStopsAtFinish(st, chunk) ==
    LET u == ChunkUsage(st.usage, chunk)
    IN  IF ~chunk.choices
        THEN [usage |-> u, finish_reason |-> st.finish_reason,
              tool_calls |-> st.tool_calls, events |-> <<>>]
        ELSE IF Truthy(chunk.finish_reason) \/ st.finish_reason # None
        THEN [usage |-> u,
              finish_reason |-> IF Truthy(chunk.finish_reason)
                                THEN chunk.finish_reason ELSE st.finish_reason,
              tool_calls |-> st.tool_calls, events |-> <<>>]
        ELSE
            LET text == IF chunk.content # <<>>
                        THEN <<TextDeltaEvent(chunk.content,
                                 IF Truthy(chunk.role) THEN chunk.role
                                 ELSE "assistant")>>
                        ELSE <<>>
                frs == ProcessFragments(st.tool_calls, chunk.tool_calls)
            IN  [usage |-> u, finish_reason |-> st.finish_reason,
                 tool_calls |-> frs.tool_calls,
                 events |-> text \o frs.events]

\* The body of `async for chunk in response` for one chunk.
ProcessChunk(st, chunk) ==
    LET u == ChunkUsage(st.usage, chunk)
    IN  IF ~chunk.choices
        THEN [usage |-> u, finish_reason |-> st.finish_reason,
              tool_calls |-> st.tool_calls, events |-> <<>>]
        ELSE
            LET fin == IF Truthy(chunk.finish_reason)
                       THEN chunk.finish_reason ELSE st.finish_reason
                text == IF chunk.content # <<>>
                        THEN <<TextDeltaEvent(chunk.content,
                                 IF Truthy(chunk.role) THEN chunk.role
                                 ELSE "assistant")>>
                        ELSE <<>>
                frs == ProcessFragments(st.tool_calls, chunk.tool_calls)
            IN  [usage |-> u, finish_reason |-> fin,
                 tool_calls |-> frs.tool_calls,
                 events |-> text \o frs.events]

\* Mutant: the loop over the table stops at the first entry whose arguments
\* do not parse.
RECURSIVE ToolCallCompleteEventsStopAtFailure(_)
ToolCallCompleteEventsStopAtFailure(tc) ==
    IF tc = <<>> THEN <<>>
    ELSE IF ~JsonWellFormed(Head(tc).arguments) THEN <<>>
    ELSE <<ToolCallComplete(Head(tc).id, Head(tc).name,
                            parse_tool_call_arguments(Head(tc).arguments))>>
         \o ToolCallCompleteEventsStopAtFailure(Tail(tc))

\* `for idx, tc in tool_calls.items()`: one event per entry, in insertion
\* order, each with the parse of its accumulated arguments.
RECURSIVE ToolCallCompleteEvents(_)
ToolCallCompleteEvents(tc) ==
    IF tc = <<>> THEN <<>>
    ELSE <<ToolCallComplete(Head(tc).id, Head(tc).name,
                            parse_tool_call_arguments(Head(tc).arguments))>>
         \o ToolCallCompleteEvents(Tail(tc))

\* Mutant: the stream ends without its completion event.
StreamEndWithoutCompletion(st) == ToolCallCompleteEvents(st.tool_calls)

\* What _stream_response yields once the transport is exhausted.
StreamEnd(st) ==
    ToolCallCompleteEvents(st.tool_calls)
    \o <<MessageComplete(st.finish_reason, st.usage)>>

-----------------------------------------------------------------------------
(* LLMClient.chat_completion: the except clauses *)

\* Mutant: every APIError, not only its two retried subclasses, is retried.
HandlerRetriesApiError(kind) ==
    CASE kind = "RateLimitError" -> "backoff"
      [] kind = "APIConnectionError" -> "immediate"
      [] kind = "APIError" -> "immediate"
      [] OTHER -> "fatal"

\* Mutant: a connection error backs off like a rate limit.
HandlerSleepsOnConnection(kind) ==
    CASE kind = "RateLimitError" -> "backoff"
      [] kind = "APIConnectionError" -> "backoff"
      [] OTHER -> "fatal"

\* Which except clause catches an exception of the given class.
Handler(kind) ==
    CASE kind = "RateLimitError" -> "backoff"
      [] kind = "APIConnectionError" -> "immediate"
      [] OTHER -> "fatal"

\* Mutant: the retry test is off by one.
MayRetryOnceMore(kind, k, m) ==
    kind \in {"RateLimitError", "APIConnectionError"} /\ k <= m

\* The handler goes on to the next attempt: `if attempt < self._max_retries`
\* in the two retrying clauses.
MayRetry(kind, k, m) == Handler(kind) # "fatal" /\ k < m

\* Mutant: 2 * attempt instead of 2 ** attempt.
RetryDelayLinear(k) == 2 * k

\* wait_time = 2 ** attempt
RetryDelay(k) == 2 ^ k

ErrorMessage(kind) ==
    CASE kind = "RateLimitError" -> "Rate limit exceeded after retries"
      [] kind = "APIConnectionError" -> "Connection failed after retries"
      [] kind = "APIError" -> "API error"
      [] OTHER -> "Unexpected error  in llm client"

-----------------------------------------------------------------------------
(* Agent._agentic_loop and Agent.run *)

\* Mutant: response_text = content instead of response_text += content.
AgentOnEventOverwrites(st, ev) ==
    IF st.returned THEN st
    ELSE CASE ev.type = "text_delta" ->
                [st EXCEPT !.response_text = ev.content,
                           !.out = Append(@, text_delta(ev.content))]
           [] ev.type = "message_complete" ->
                IF st.response_text # <<>>
                THEN [st EXCEPT !.out = Append(@, text_complete(st.response_text))]
                ELSE st
           [] ev.type = "error" ->
                [st EXCEPT !.out = Append(@, agent_error(
                               IF Truthy(ev.error) THEN ev.error
                               ELSE "Unknown error occurred.", None)),
                           !.returned = TRUE]
           [] OTHER -> st

\* Mutant: a text delta repeating the text accumulated so far is dropped.
AgentOnEventDeduplicates(st, ev) ==
    IF st.returned THEN st
    ELSE CASE ev.type = "text_delta" ->
                IF st.response_text = ev.content THEN st
                ELSE [st EXCEPT !.response_text = @ \o ev.content,
                                !.out = Append(@, text_delta(ev.content))]
           [] ev.type = "message_complete" ->
                IF st.response_text # <<>>
                THEN [st EXCEPT !.out = Append(@, text_complete(st.response_text))]
                ELSE st
           [] ev.type = "error" ->
                [st EXCEPT !.out = Append(@, agent_error(
                               IF Truthy(ev.error) THEN ev.error
                               ELSE "Unknown error occurred.", None)),
                           !.returned = TRUE]
           [] OTHER -> st

\* Mutant: TEXT_COMPLETE is emitted on MESSAGE_COMPLETE whatever the text is.
AgentOnEventAlwaysCompletes(st, ev) ==
    IF st.returned THEN st
    ELSE CASE ev.type = "text_delta" ->
                [st EXCEPT !.response_text = @ \o ev.content,
                           !.out = Append(@, text_delta(ev.content))]
           [] ev.type = "message_complete" ->
                [st EXCEPT !.out = Append(@, text_complete(st.response_text))]
           [] ev.type = "error" ->
                [st EXCEPT !.out = Append(@, agent_error(
                               IF Truthy(ev.error) THEN ev.error
                               ELSE "Unknown error occurred.", None)),
                           !.returned = TRUE]
           [] OTHER -> st

\* Mutant: on ERROR the text accumulated so far is completed after the error.
AgentOnEventCompletesOnError(st, ev) ==
    IF st.returned THEN st
    ELSE CASE ev.type = "text_delta" ->
                [st EXCEPT !.response_text = @ \o ev.content,
                           !.out = Append(@, text_delta(ev.content))]
           [] ev.type = "message_complete" ->
                IF st.response_text # <<>>
                THEN [st EXCEPT !.out = Append(@, text_complete(st.response_text))]
                ELSE st
           [] ev.type = "error" ->
                [st EXCEPT !.out = Append(@, agent_error(
                               IF Truthy(ev.error) THEN ev.error
                               ELSE "Unknown error occurred.", None))
                             \o (IF st.response_text # <<>>
                                 THEN <<text_complete(st.response_text)>>
                                 ELSE <<>>),
                           !.returned = TRUE]
           [] OTHER -> st

\* Mutant: response_text = content + response_text.
AgentOnEventPrepends(st, ev) ==
    IF st.returned THEN st
    ELSE CASE ev.type = "text_delta" ->
                [st EXCEPT !.response_text = ev.content \o @,
                           !.out = Append(@, text_delta(ev.content))]
           [] ev.type = "message_complete" ->
                IF st.response_text # <<>>
                THEN [st EXCEPT !.out = Append(@, text_complete(st.response_text))]
                ELSE st
           [] ev.type = "error" ->
                [st EXCEPT !.out = Append(@, agent_error(
                               IF Truthy(ev.error) THEN ev.error
                               ELSE "Unknown error occurred.", None)),
                           !.returned = TRUE]
           [] OTHER -> st

\* The body of `async for event in self.client.chat_completion(...)`.
AgentOnEvent(st, ev) ==
    IF st.returned THEN st
    ELSE CASE ev.type = "text_delta" ->
                [st EXCEPT !.response_text = @ \o ev.content,
                           !.out = Append(@, text_delta(ev.content))]
           [] ev.type = "message_complete" ->
                IF st.response_text # <<>>
                THEN [st EXCEPT !.out = Append(@, text_complete(st.response_text))]
                ELSE st
           [] ev.type = "error" ->
                [st EXCEPT !.out = Append(@, agent_error(
                               IF Truthy(ev.error) THEN ev.error
                               ELSE "Unknown error occurred.", None)),
                           !.returned = TRUE]
           [] OTHER -> st

RECURSIVE AgentLoop(_, _)
AgentLoop(st, evs) ==
    IF evs = <<>> THEN st
    ELSE AgentLoop(AgentOnEvent(st, Head(evs)), Tail(evs))

\* Mutant: run never captures the text of TEXT_COMPLETE.
RunFinalResponseNeverSet(fr, out) == fr

\* run: final_response after the given events of the loop were yielded.
RECURSIVE RunFinalResponse(_, _)
RunFinalResponse(fr, out) ==
    IF out = <<>> THEN fr
    ELSE RunFinalResponse(IF Head(out).type = "text_complete"
                          THEN Head(out).content ELSE fr, Tail(out))

\* Mutant: run yields AGENT_END only when the loop ended without an error.
RunEpilogueSkippedOnError(fr, errored) ==
    IF errored THEN <<>> ELSE <<agent_end(fr)>>

\* run: what follows the loop, whether it ended normally or after an error.
RunEpilogue(fr, errored) == <<agent_end(fr)>>

\* Mutant: the consumer gets the new events before the earlier ones.
DeliverOutOfOrder(evs, finished) ==
    LET a == AgentLoop([response_text |-> response_text, out |-> <<>>,
                        returned |-> FALSE], evs)
        fr == RunFinalResponse(final_response, a.out)
    IN  /\ streamEvents' = evs \o streamEvents
        /\ response_text' = a.response_text
        /\ final_response' = fr
        /\ agentEvents' = agentEvents \o a.out
                          \o (IF finished \/ a.returned
                              THEN RunEpilogue(fr, a.returned) ELSE <<>>)

\* The stream events evs are yielded by chat_completion and consumed by the
\* agent; finished: chat_completion returns after them.
Deliver(evs, finished) ==
    LET a == AgentLoop([response_text |-> response_text, out |-> <<>>,
                        returned |-> FALSE], evs)
        fr == RunFinalResponse(final_response, a.out)
    IN  /\ streamEvents' = streamEvents \o evs
        /\ response_text' = a.response_text
        /\ final_response' = fr
        /\ agentEvents' = agentEvents \o a.out
                          \o (IF finished \/ a.returned
                              THEN RunEpilogue(fr, a.returned) ELSE <<>>)

-----------------------------------------------------------------------------
(* The state machine *)

TotalChunks == Len(Flatten([i \in 1..Len(log) |-> log[i].chunks]))

Work == maxRetries + TotalChunks

\* No CLI around the Agent: the Agent is driven by its caller directly.
NoCli == [pos |-> "none", cause |-> "none", result |-> <<>>, exit_code |-> -1]

NoContext == [system_prompt |-> "", messages |-> <<>>]

NoCall == [tools |-> <<>>, stream |-> TRUE, kwargs |-> <<>>, request |-> <<>>]

NoTasks == [closing |-> 0, trace |-> <<>>]

\* A new Agent with its new LLMClient, before any call.
NewAgent ==
    /\ pc = "idle"
    /\ client = "none"
    /\ handles = <<>>
    /\ attempt = 0
    /\ usage = NoUsage
    /\ finish_reason = None
    /\ tool_calls = <<>>
    /\ response_text = <<>>
    /\ final_response = <<>>
    /\ streamEvents = <<>>
    /\ agentEvents = <<>>
    /\ clock = 0
    /\ sleepFor = 0
    /\ log = <<>>
    /\ prior = <<>>

Init ==
    /\ maxRetries \in 0..MaxRetries
    /\ message \in Messages
    /\ NewAgent
    /\ cli = NoCli
    /\ ctx = NoContext
    /\ call = NoCall
    /\ tasks = NoTasks
    /\ usages = <<>>

\* Agent.run is called and its first event is taken; under the CLI that
\* happens in _process_message, inside the scope of `async with Agent()`.
Run ==
    /\ pc = "idle"
    /\ cli.pos \in {"none", "scope"}
    /\ agentEvents' = <<agent_start(message)>>
    /\ pc' = "get_client"
    /\ UNCHANGED <<maxRetries, message, client, attempt, usage, finish_reason,
                   tool_calls, response_text, final_response, streamEvents,
                   clock, sleepFor, log>>
    /\ UNCHANGED <<handles, cli, prior, ctx, call, tasks,
                   usages>>

\* chat_completion starts: client = self.get_client() creates the handle
\* when the LLMClient holds none, and returns the one it holds otherwise.
GetClient ==
    /\ pc = "get_client"
    /\ IF client = "none"
       THEN /\ client' = "open"
            /\ handles' = Append(handles, "open")
       ELSE UNCHANGED <<client, handles>>
    /\ pc' = "attempt"
    /\ UNCHANGED <<maxRetries, message, attempt, usage, finish_reason,
                   tool_calls, response_text, final_response, streamEvents,
                   agentEvents, clock, sleepFor, log>>
    /\ UNCHANGED <<cli, prior, ctx, call, tasks,
                   usages>>

\* Mutant: _agentic_loop has no except clause, the exception of get_client
\* ends run without an event.
GetClientRaisesUncaught ==
    /\ pc = "get_client"
    /\ client = "none"
    /\ pc' = "done"
    /\ UNCHANGED <<maxRetries, message, client, attempt, usage, finish_reason,
                   tool_calls, response_text, final_response, streamEvents,
                   agentEvents, clock, sleepFor, log>>
    /\ UNCHANGED <<handles, cli, prior, ctx, call, tasks, usages>>

\* get_client raises: outside chat_completion's try, inside _agentic_loop's.
GetClientRaises ==
    /\ pc = "get_client"
    /\ client = "none"
    /\ agentEvents' = agentEvents
                      \o <<agent_error("client initialization failed",
                                       "_agentic_loop")>>
                      \o RunEpilogue(final_response, TRUE)
    /\ pc' = "done"
    /\ UNCHANGED <<maxRetries, message, client, attempt, usage, finish_reason,
                   tool_calls, response_text, final_response, streamEvents,
                   clock, sleepFor, log>>
    /\ UNCHANGED <<handles, cli, prior, ctx, call, tasks,
                   usages>>

\* An attempt, the last of lg, ends with an exception of class kind: the
\* except clauses of chat_completion.
FailAttempt(kind, lg) ==
    /\ log' = [lg EXCEPT ![Len(lg)].outcome = kind, ![Len(lg)].end = clock]
    /\ IF MayRetry(kind, attempt, maxRetries)
       THEN /\ IF Handler(kind) = "backoff"
               THEN /\ pc' = "sleeping"
                    /\ sleepFor' = RetryDelay(attempt)
                    /\ UNCHANGED attempt
               ELSE /\ pc' = "attempt"
                    /\ attempt' = attempt + 1
                    /\ UNCHANGED sleepFor
            /\ UNCHANGED <<streamEvents, agentEvents, response_text,
                           final_response>>
       ELSE /\ Deliver(<<ErrorEvent(ErrorMessage(kind))>>, TRUE)
            /\ pc' = "done"
            /\ UNCHANGED <<attempt, sleepFor>>
    /\ UNCHANGED <<maxRetries, message, client, usage, finish_reason,
                   tool_calls, clock>>
    /\ UNCHANGED <<handles, cli, prior, ctx, call, tasks,
                   usages>>

\* seen: how many events chat_completion had yielded when the attempt began.
NewAttempt == [outcome |-> "running", chunks |-> <<>>, start |-> clock,
               end |-> clock, seen |-> Len(streamEvents)]

\* Mutant: the locals of the earlier attempt are kept.
CreateStreamKeepsLocals ==
    /\ pc = "attempt"
    /\ attempt <= maxRetries
    /\ log' = Append(log, NewAttempt)
    /\ pc' = "streaming"
    /\ UNCHANGED <<usage, finish_reason, tool_calls>>
    /\ UNCHANGED <<maxRetries, message, client, attempt, response_text,
                   final_response, streamEvents, agentEvents, clock, sleepFor>>
    /\ UNCHANGED <<handles, cli, prior, ctx, call, tasks,
                   usages>>

\* Top of the retry loop (for attempt in range(max_retries + 1)):
\* _stream_response awaits create(), which returns the stream; usage,
\* finish_reason and tool_calls start empty.
CreateStream ==
    /\ pc = "attempt"
    /\ attempt <= maxRetries
    /\ log' = Append(log, NewAttempt)
    /\ usage' = NoUsage
    /\ finish_reason' = None
    /\ tool_calls' = <<>>
    /\ pc' = "streaming"
    /\ UNCHANGED <<maxRetries, message, client, attempt, response_text,
                   final_response, streamEvents, agentEvents, clock, sleepFor>>
    /\ UNCHANGED <<handles, cli, prior, ctx, call, tasks,
                   usages>>

\* Top of the retry loop: create() raises.
CreateRaises(kind) ==
    /\ pc = "attempt"
    /\ attempt <= maxRetries
    /\ FailAttempt(kind, Append(log, NewAttempt))

\* The stream delivers one chunk.
RecvChunk(chunk) ==
    /\ pc = "streaming"
    /\ Work < MaxWork
    /\ LET r == ProcessChunk([usage |-> usage, finish_reason |-> finish_reason,
                              tool_calls |-> tool_calls], chunk)
       IN  /\ usage' = r.usage
           /\ finish_reason' = r.finish_reason
           /\ tool_calls' = r.tool_calls
           /\ Deliver(r.events, FALSE)
    /\ log' = [log EXCEPT ![Len(log)].chunks = Append(@, chunk)]
    /\ UNCHANGED <<pc, maxRetries, message, client, attempt, clock, sleepFor>>
    /\ UNCHANGED <<handles, cli, prior, ctx, call, tasks,
                   usages>>

\* The stream raises while it is iterated (a malformed chunk included).
StreamRaises(kind) ==
    /\ pc = "streaming"
    /\ FailAttempt(kind, log)

\* The stream is exhausted.
Exhausted ==
    /\ pc = "streaming"
    /\ Deliver(StreamEnd([usage |-> usage, finish_reason |-> finish_reason,
                          tool_calls |-> tool_calls]), TRUE)
    /\ log' = [log EXCEPT ![Len(log)].outcome = "ok", ![Len(log)].end = clock]
    /\ pc' = "done"
    /\ UNCHANGED <<maxRetries, message, client, attempt, usage, finish_reason,
                   tool_calls, clock, sleepFor>>
    /\ UNCHANGED <<handles, cli, prior, ctx, call, tasks,
                   usages>>

\* asyncio.sleep(wait_time) returns; the loop goes on to the next attempt.
Wake ==
    /\ pc = "sleeping"
    /\ clock' = clock + sleepFor
    /\ sleepFor' = 0
    /\ attempt' = attempt + 1
    /\ pc' = "attempt"
    /\ UNCHANGED <<maxRetries, message, client, usage, finish_reason,
                   tool_calls, response_text, final_response, streamEvents,
                   agentEvents, log>>
    /\ UNCHANGED <<handles, cli, prior, ctx, call, tasks,
                   usages>>

Next ==
    \/ Run
    \/ GetClient
    \/ GetClientRaises
    \/ CreateStream
    \/ \E kind \in ErrKinds : CreateRaises(kind)
    \/ \E chunk \in Chunks : RecvChunk(chunk)
    \/ \E kind \in ErrKinds : StreamRaises(kind)
    \/ Exhausted
    \/ Wake

Spec == Init /\ [][Next]_vars

FairSpec == Spec /\ WF_vars(Next)

-----------------------------------------------------------------------------
(* Reading the event sequences and the log *)

OfType(evs, t) == SelectSeq(evs, LAMBDA e : e.type = t)

Count(evs, t) == Len(OfType(evs, t))

\* The concatenation of the contents of the TEXT_DELTA events of evs.
DeltaText(evs) ==
    LET ds == OfType(evs, "text_delta")
    IN  Flatten([i \in 1..Len(ds) |-> ds[i].content])

\* The text the transport sent in the given chunks.
SentText(chunks) ==
    Flatten([i \in 1..Len(chunks) |->
                IF chunks[i].choices THEN chunks[i].content ELSE <<>>])

\* The text the transport sent in the attempts 1..n of the log.
SentTextUpTo(n) == Flatten([i \in 1..n |-> SentText(log[i].chunks)])

Succeeded == pc = "done" /\ log # <<>> /\ Last(log).outcome = "ok"

Retryable == {"RateLimitError", "APIConnectionError"}

-----------------------------------------------------------------------------
(* Claims *)

\* C1: whatever the outcome of Agent.run, the event sequence begins with
\* exactly one AgentStart carrying the user message; once the run is over it
\* ends with exactly one AgentEnd, also after an AgentError, and before that
\* no AgentEnd has been emitted.
C1_StartThenEnd ==
    /\ (agentEvents = <<>>) <=> (pc = "idle")
    /\ agentEvents # <<>> =>
          /\ agentEvents[1] = agent_start(message)
          /\ Count(agentEvents, "agent_start") = 1
    /\ pc = "done" =>
          /\ Last(agentEvents).type = "agent_end"
          /\ Count(agentEvents, "agent_end") = 1
    /\ pc # "done" => Count(agentEvents, "agent_end") = 0

C1_Witness ==
    /\ pc = "done"
    /\ Len(agentEvents) = 3
    /\ agentEvents[1].type = "agent_start"
    /\ agentEvents[2].type = "agent_error"
    /\ agentEvents[3].type = "agent_end"

\* C2: when the one attempt of a run delivers only text chunks and ends without
\* an error, the TextDelta contents, concatenated in emission order, are the
\* text the transport sent; TextComplete, emitted once when that text is not
\* empty, carries it, and so does AgentEnd.
TextOnlyRun ==
    /\ Succeeded
    /\ Len(log) = 1
    /\ \A i \in 1..Len(log[1].chunks) : log[1].chunks[i] \in TextChunks

C2_DeltasEqualComplete ==
    TextOnlyRun =>
        LET deltas == DeltaText(agentEvents)
            completes == OfType(agentEvents, "text_complete")
        IN  /\ deltas = SentText(log[1].chunks)
            /\ \A i \in 1..Len(completes) : completes[i].content = deltas
            /\ Len(completes) = (IF deltas = <<>> THEN 0 ELSE 1)
            /\ Last(agentEvents) = agent_end(deltas)

C2_Witness ==
    /\ TextOnlyRun
    /\ Count(agentEvents, "text_delta") = 2
    /\ DeltaText(agentEvents) = <<"H", "i", "!">>
    /\ Count(agentEvents, "text_complete") = 1

\* C3: a rate-limit failure on attempt k < maxRetries is followed by a sleep
\* of exactly 2^k seconds, and attempt k+1 starts when it is over; a rate-limit
\* failure on attempt k = maxRetries is followed by no sleep and no attempt,
\* and by exactly one error event.
C3_Backoff ==
    \A i \in 1..Len(log) :
        log[i].outcome = "RateLimitError" =>
            IF i - 1 < maxRetries
            THEN IF i < Len(log)
                 THEN log[i + 1].start - log[i].end = 2 ^ (i - 1)
                 ELSE \/ /\ pc = "sleeping"
                         /\ sleepFor = 2 ^ (i - 1)
                         /\ clock = log[i].end
                      \/ /\ pc = "attempt"
                         /\ clock - log[i].end = 2 ^ (i - 1)
            ELSE /\ i = Len(log)
                 /\ pc = "done"
                 /\ clock = log[i].end
                 /\ Count(streamEvents, "error") = 1
                 /\ Last(streamEvents).type = "error"
                 /\ Count(agentEvents, "agent_error") = 1

C3_Witness ==
    /\ maxRetries = 3
    /\ Len(log) = 4
    /\ \A i \in 1..4 : log[i].outcome = "RateLimitError"
    /\ log[2].start - log[1].end = 1
    /\ log[3].start - log[2].end = 2
    /\ log[4].start - log[3].end = 4
    /\ pc = "done"
    /\ clock = 7

\* C4: one chat_completion call runs at most maxRetries+1 attempts and then
\* ends; when every attempt fails with a retryable failure it ends after
\* attempt maxRetries with exactly one error event, the summary of the
\* exhausted retries.
AllFailedRetryable ==
    /\ Len(log) = maxRetries + 1
    /\ \A i \in 1..Len(log) : log[i].outcome \in Retryable

C4_Attempts ==
    /\ Len(log) <= maxRetries + 1
    /\ attempt <= maxRetries
    /\ AllFailedRetryable =>
          /\ pc = "done"
          /\ Count(streamEvents, "error") = 1
          /\ Last(streamEvents) = ErrorEvent(
                 IF Last(log).outcome = "RateLimitError"
                 THEN "Rate limit exceeded after retries"
                 ELSE "Connection failed after retries")

C4_BoundedAttempts == []C4_Attempts /\ <>[](pc = "done")

C4_Witness ==
    /\ maxRetries = 2
    /\ AllFailedRetryable
    /\ log[1].outcome = "APIConnectionError"
    /\ log[2].outcome = "RateLimitError"
    /\ log[3].outcome = "APIConnectionError"
    /\ pc = "done"

\* C5: a failure that is neither a rate limit nor a connection failure ends
\* the call on the attempt it happens on, the first included: no attempt and
\* no sleep follow it, and exactly one error event and one AgentError are
\* emitted.
C5_FatalStops ==
    \A i \in 1..Len(log) :
        log[i].outcome \in {"APIError", "Exception"} =>
            /\ i = Len(log)
            /\ pc = "done"
            /\ clock = log[i].end
            /\ Count(streamEvents, "error") = 1
            /\ Count(agentEvents, "agent_error") = 1
            /\ Last(agentEvents).type = "agent_end"

C5_Witness ==
    /\ maxRetries = 3
    /\ Len(log) = 1
    /\ log[1].outcome = "APIError"
    /\ pc = "done"
    /\ Count(agentEvents, "agent_error") = 1

\* C6 as stated: when retryable failures, at most maxRetries of them, are
\* followed by a successful attempt, the run has one AgentStart, no AgentError
\* and no stream error event, and AgentEnd carries the text of the successful
\* attempt; after two rate-limit failures and a success the total wait is 3 s.
C6_EndCarriesSuccessfulAttemptText ==
    Succeeded =>
        /\ Count(agentEvents, "agent_start") = 1
        /\ Count(agentEvents, "agent_error") = 0
        /\ Count(streamEvents, "error") = 0
        /\ Last(agentEvents) = agent_end(SentText(Last(log).chunks))
        /\ (/\ Len(log) = 3
            /\ log[1].outcome = "RateLimitError"
            /\ log[2].outcome = "RateLimitError") => clock = 3

\* C6, amended: as above, but AgentEnd carries the text streamed in the whole
\* run, the text of the failed attempts followed by that of the successful
\* one; it is the successful attempt's text when no failed attempt streamed
\* text before it failed.
C6_EndCarriesAllStreamedText ==
    Succeeded =>
        /\ \A i \in 1..(Len(log) - 1) : log[i].outcome \in Retryable
        /\ Len(log) - 1 <= maxRetries
        /\ Count(agentEvents, "agent_start") = 1
        /\ Count(agentEvents, "agent_error") = 0
        /\ Count(streamEvents, "error") = 0
        /\ Last(agentEvents) = agent_end(SentTextUpTo(Len(log)))
        /\ SentTextUpTo(Len(log) - 1) = <<>> =>
              Last(agentEvents) = agent_end(SentText(Last(log).chunks))
        /\ (/\ Len(log) = 3
            /\ log[1].outcome = "RateLimitError"
            /\ log[2].outcome = "RateLimitError") => clock = 3

C6_Witness ==
    /\ Succeeded
    /\ Len(log) = 3
    /\ log[1].outcome = "RateLimitError"
    /\ log[2].outcome = "RateLimitError"
    /\ clock = 3
    /\ Last(agentEvents) = agent_end(<<"H", "i">>)

\* C7: a connection failure on attempt k < maxRetries is followed by attempt
\* k+1 with no wait in between, and no sleep is ever in progress after a
\* connection failure.
C7_ConnectionNoWait ==
    /\ \A i \in 1..Len(log) :
          (log[i].outcome = "APIConnectionError" /\ i - 1 < maxRetries) =>
              IF i < Len(log)
              THEN log[i + 1].start = log[i].end
              ELSE /\ pc = "attempt"
                   /\ attempt = i
                   /\ clock = log[i].end
    /\ pc = "sleeping" => Last(log).outcome = "RateLimitError"

C7_Witness ==
    /\ Len(log) = 3
    /\ log[1].outcome = "RateLimitError"
    /\ log[2].outcome = "APIConnectionError"
    /\ log[2].end = 1
    /\ log[3].start = 1

\* The tool-call fragments the transport sent in the given chunks, the
\* indices among them in the order they first arrived, and the arguments
\* chunks of one index concatenated in arrival order.
Frags(chunks) ==
    Flatten([i \in 1..Len(chunks) |->
                IF chunks[i].choices THEN chunks[i].tool_calls ELSE <<>>])

RECURSIVE IndexOrder(_, _)
IndexOrder(frags, seen) ==
    IF frags = <<>> THEN <<>>
    ELSE IF Head(frags).index \in seen THEN IndexOrder(Tail(frags), seen)
    ELSE <<Head(frags).index>>
         \o IndexOrder(Tail(frags), seen \cup {Head(frags).index})

ArgsOf(frags, idx) ==
    Flatten([i \in 1..Len(frags) |->
                IF frags[i].index = idx /\ frags[i].function
                THEN frags[i].arguments ELSE <<>>])

\* C8 as stated: the ToolCallCompleted record of an index carries the parse of
\* the concatenation, in arrival order, of the arguments chunks of all the
\* fragments of that index.
C8_CompletedCarriesAllFragments ==
    Succeeded =>
        LET frags == Frags(Last(log).chunks)
            order == IndexOrder(frags, {})
            done == OfType(streamEvents, "tool_call_complete")
        IN  /\ Len(done) = Len(order)
            /\ \A k \in 1..Len(order) :
                  done[k].arguments =
                      parse_tool_call_arguments(ArgsOf(frags, order[k]))

\* C9 as stated: every fragment with a non-empty arguments chunk yields one
\* ToolCallArgumentsDelta event carrying that chunk, the second and later
\* fragments of an index included.
C9_DeltaPerArgumentsFragment ==
    LET frags == Flatten([i \in 1..Len(log) |-> Frags(log[i].chunks)])
        withArgs == SelectSeq(frags,
                        LAMBDA f : f.function /\ f.arguments # <<>>)
        deltas == OfType(streamEvents, "tool_call_delta")
    IN  /\ Len(deltas) = Len(withArgs)
        /\ \A k \in 1..Len(deltas) :
              deltas[k].arguments_delta = withArgs[k].arguments

Failed == pc = "done" /\ Count(agentEvents, "agent_error") > 0

\* C11 as stated: when a run ends in a fatal or retry-exhausted failure,
\* AgentEnd carries the text of the TextDelta events emitted before it; it is
\* empty only when no TextDelta was emitted.
C11_EndCarriesPartialText ==
    Failed => Last(agentEvents) = agent_end(DeltaText(agentEvents))

Terminal(e) == e.type \in {"message_complete", "error"}

Terminals(evs) == SelectSeq(evs, Terminal)

-----------------------------------------------------------------------------
(* The CLI: main, CLI.run_single, CLI._process_message, Agent.__aexit__ *)

NoPrompt == None

Prompts == Messages \cup {NoPrompt}

\* _process_message takes one event of agent.run; tui lists the calls made on
\* the renderer.
ProcessMessageOnEvent(st, ev) ==
    IF st.returned THEN st
    ELSE CASE ev.type = "text_delta" ->
                [st EXCEPT !.full_response = @ \o ev.content,
                           !.assistant_streaming = TRUE,
                           !.tui = @ \o (IF st.assistant_streaming THEN <<>>
                                         ELSE <<"begin_assistant">>)
                                   \o <<"stream_assistant_delta">>]
           [] ev.type = "text_complete" ->
                IF st.assistant_streaming
                THEN [st EXCEPT !.assistant_streaming = FALSE,
                                !.tui = Append(@, "end_assistant")]
                ELSE st
           [] ev.type = "agent_error" ->
                [st EXCEPT !.returned = TRUE, !.tui = Append(@, "print_error")]
           [] OTHER -> st

RECURSIVE ProcessMessageLoop(_, _)
ProcessMessageLoop(st, evs) ==
    IF evs = <<>> THEN st
    ELSE ProcessMessageLoop(ProcessMessageOnEvent(st, Head(evs)), Tail(evs))

\* _process_message over the events of a run: its locals when it returns.
ProcessMessage(evs) ==
    ProcessMessageLoop([full_response |-> <<>>, assistant_streaming |-> FALSE,
                        tui |-> <<>>, returned |-> FALSE], evs)

\* What _process_message returns: None (the empty sequence) on AgentError,
\* the accumulated text otherwise.
ProcessMessageResult(evs) ==
    LET st == ProcessMessage(evs)
    IN  IF st.returned THEN <<>> ELSE <<st.full_response>>

\* Mutant: __aexit__ does not close the client.
AExitLeavesOpen(c, hs) == [client |-> c, handles |-> hs]

\* Agent.__aexit__: LLMClient.close closes the handle the LLMClient holds, if
\* any, and forgets it.
AExit(c, hs) ==
    IF c = "open"
    THEN [client |-> "none",
          handles |-> [hs EXCEPT ![Len(hs)] = "closed"]]
    ELSE [client |-> c, handles |-> hs]

\* The exit code of main once run_single has returned result: only None is a
\* failure, an empty text is not.
ExitCode(result) == IF result = <<>> THEN 1 ELSE 0

CliInit ==
    /\ maxRetries \in 0..MaxRetries
    /\ message \in Prompts
    /\ NewAgent
    /\ cli = [pos |-> "main", cause |-> "none", result |-> <<>>,
              exit_code |-> -1]
    /\ ctx = NoContext
    /\ call = NoCall
    /\ tasks = NoTasks
    /\ usages = <<>>

\* main with a prompt: asyncio.run(cli.run_single(prompt)) enters the scope
\* of `async with Agent()`.
Main ==
    /\ cli.pos = "main"
    /\ message # NoPrompt
    /\ cli' = [cli EXCEPT !.pos = "scope"]
    /\ UNCHANGED <<pipeVars, prior, ctx, call, tasks, usages>>

\* main without a prompt: the usage line, then sys.exit.
Usage ==
    /\ cli.pos = "main"
    /\ message = NoPrompt
    /\ cli' = [cli EXCEPT !.pos = "exited", !.cause = "usage",
                          !.exit_code = 0]
    /\ UNCHANGED <<pipeVars, prior, ctx, call, tasks, usages>>

\* _process_message returns, on AgentError without taking the rest of the
\* events, or when the events are exhausted; the scope is left.
ProcessMessageReturns ==
    /\ cli.pos = "scope"
    /\ pc = "done"
    /\ LET x == AExit(client, handles)
       IN  /\ client' = x.client
           /\ handles' = x.handles
    /\ cli' = [cli EXCEPT !.pos = "left", !.cause = "returned",
                          !.result = ProcessMessageResult(agentEvents)]
    /\ UNCHANGED <<pc, maxRetries, message, attempt, usage, finish_reason,
                   tool_calls, response_text, final_response, streamEvents,
                   agentEvents, clock, sleepFor, log, prior, ctx, call, tasks,
                   usages>>

\* The scope is left by an exception, of class KeyboardInterrupt (the user
\* interrupts: the task is cancelled where it waits) or Exception (the
\* renderer raises on an event): the pipeline is abandoned where it is,
\* __aexit__ runs, and main's except clause exits.
Abandon(cause) ==
    /\ cli.pos = "scope"
    /\ cause = "Exception" => agentEvents # <<>>
    /\ pc' = "abandoned"
    /\ LET x == AExit(client, handles)
       IN  /\ client' = x.client
           /\ handles' = x.handles
    /\ cli' = [cli EXCEPT !.pos = "exited", !.cause = cause,
                          !.exit_code = IF cause = "KeyboardInterrupt"
                                        THEN 0 ELSE 1]
    /\ UNCHANGED <<maxRetries, message, attempt, usage, finish_reason,
                   tool_calls, response_text, final_response, streamEvents,
                   agentEvents, clock, sleepFor, log, prior, ctx, call, tasks,
                   usages>>

\* main after asyncio.run returned: sys.exit(1) when the result is None, the
\* end of main (exit code 0) otherwise.
Exit ==
    /\ cli.pos = "left"
    /\ cli' = [cli EXCEPT !.pos = "exited",
                          !.exit_code = ExitCode(cli.result)]
    /\ UNCHANGED <<pipeVars, prior, ctx, call, tasks, usages>>

CliNext ==
    \/ Main
    \/ Usage
    \/ Next
    \/ ProcessMessageReturns
    \/ \E cause \in {"KeyboardInterrupt", "Exception"} : Abandon(cause)
    \/ Exit

CliSpec == CliInit /\ [][CliNext]_vars

\* C13: once the scope of `async with Agent()` is left, whether the run
\* completed, failed with AgentError (the CLI then stops taking events),
\* or an exception or an interrupt went through the scope, the LLMClient
\* holds no handle and every handle that was created is closed; at most one
\* handle is created, and it is open for as long as the LLMClient holds it.
C13_HandleReleased ==
    /\ Len(handles) <= 1
    /\ client = "open" <=> (handles # <<>> /\ Last(handles) = "open")
    /\ cli.pos \in {"left", "exited"} =>
          /\ client = "none"
          /\ \A h \in 1..Len(handles) : handles[h] = "closed"

C13_Witness ==
    /\ cli.pos = "left"
    /\ cli.result = <<>>
    /\ Failed
    /\ Count(agentEvents, "text_delta") > 0
    /\ handles = <<"closed">>
    /\ client = "none"

\* C18 as stated: the CLI exits with code 0 when the run succeeds, with code 1
\* when the run fails (AgentError or an unexpected exception) or when no
\* prompt is given, and with code 0 on a user interrupt.
C18_ExitCodes ==
    cli.pos = "exited" =>
        cli.exit_code
            = (CASE cli.cause = "KeyboardInterrupt" -> 0
                 [] cli.cause = "Exception" -> 1
                 [] cli.cause = "usage" -> 1
                 [] OTHER -> IF Failed THEN 1 ELSE 0)

\* The positions of the renderer call named c among the calls t.
CallsOf(t, c) == {i \in 1..Len(t) : t[i] = c}

\* C35 as stated: when _process_message has returned, begin_assistant was
\* called at most once, before the first text delta was painted, and every
\* begin_assistant was followed by an end_assistant, on the success path and
\* on the error path after partial text.
C35_TurnsBalanced ==
    cli.cause = "returned" =>
        LET t == ProcessMessage(agentEvents).tui
        IN  /\ Cardinality(CallsOf(t, "begin_assistant")) <= 1
            /\ \A d \in CallsOf(t, "stream_assistant_delta") :
                   \E b \in CallsOf(t, "begin_assistant") : b < d
            /\ \A b \in CallsOf(t, "begin_assistant") :
                   \E e \in CallsOf(t, "end_assistant") : b < e

-----------------------------------------------------------------------------
(* The attempts of one request *)

FreshStream == [usage |-> NoUsage, finish_reason |-> None, tool_calls |-> <<>>]

\* _stream_response over the given chunks, from its initial locals: its
\* locals and the events it has yielded when the chunks are consumed.
RECURSIVE StreamOver(_, _)
StreamOver(st, chunks) ==
    IF chunks = <<>> THEN [st |-> st, events |-> <<>>]
    ELSE LET r == ProcessChunk(st, Head(chunks))
             rest == StreamOver([usage |-> r.usage,
                                 finish_reason |-> r.finish_reason,
                                 tool_calls |-> r.tool_calls], Tail(chunks))
         IN  [st |-> rest.st, events |-> r.events \o rest.events]

\* The events chat_completion yielded from the start of attempt i to the
\* start of attempt i + 1, or to now for the last attempt.
YieldedIn(i) ==
    SubSeq(streamEvents, log[i].seen + 1,
           IF i < Len(log) THEN log[i + 1].seen ELSE Len(streamEvents))

\* C15: the attempts of one request are strictly sequential: only the last
\* attempt can be in progress; attempt k+1 starts after attempt k failed
\* with a retryable error and after its backoff wait, 2^k seconds for a rate
\* limit and none for a connection error; the events are in arrival order,
\* the events of attempt k, which are those of its chunks in the order the
\* transport sent them, coming before every event of attempt k+1.
C15_AttemptsSequential ==
    /\ \A i \in 1..Len(log) :
          /\ log[i].outcome = "running" => i = Len(log) /\ pc = "streaming"
          /\ log[i].start <= log[i].end
          /\ log[i].seen <= Len(streamEvents)
    /\ log # <<>> => log[1].seen = 0
    /\ \A i \in 1..(Len(log) - 1) :
          /\ log[i].outcome \in Retryable
          /\ log[i + 1].start
                = log[i].end + (IF log[i].outcome = "RateLimitError"
                                THEN 2 ^ (i - 1) ELSE 0)
          /\ log[i].seen <= log[i + 1].seen
          /\ YieldedIn(i) = StreamOver(FreshStream, log[i].chunks).events
    /\ log # <<>> =>
          LET own == StreamOver(FreshStream, Last(log).chunks).events
              got == YieldedIn(Len(log))
          IN  /\ Len(own) <= Len(got)
              /\ SubSeq(got, 1, Len(own)) = own
              /\ \A j \in (Len(own) + 1)..Len(got) :
                    got[j].type \in {"tool_call_complete", "message_complete",
                                     "error"}

C15_Witness ==
    /\ pc = "done"
    /\ Len(log) = 2
    /\ log[1].outcome = "RateLimitError"
    /\ log[1].chunks # <<>>
    /\ log[2].chunks # <<>>
    /\ log[2].outcome = "ok"
    /\ log[2].start = 1
    /\ log[2].seen = 1
    /\ Len(streamEvents) = 3

-----------------------------------------------------------------------------
(* A second request through the same Agent *)

IsPrefix(s, t) == Len(s) <= Len(t) /\ SubSeq(t, 1, Len(s)) = s

\* Mutant: the text accumulated for the earlier request is kept.
RunAgainKeepsText ==
    /\ pc = "done"
    /\ prior = <<>>
    /\ prior' = <<[log |-> log, streamEvents |-> streamEvents,
                   agentEvents |-> agentEvents]>>
    /\ pc' = "idle"
    /\ agentEvents' = <<>>
    /\ streamEvents' = <<>>
    /\ log' = <<>>
    /\ attempt' = 0
    /\ final_response' = <<>>
    /\ UNCHANGED <<maxRetries, message, client, handles, usage, finish_reason,
                   tool_calls, response_text, clock, sleepFor, cli, ctx, call, tasks,
                   usages>>

\* The run is over and its events are taken; the caller is about to call
\* agent.run again with the same message, on the same Agent and LLMClient:
\* the locals of run, _agentic_loop and chat_completion are new ones, the
\* handle the LLMClient holds stays.
RunAgain ==
    /\ pc = "done"
    /\ prior = <<>>
    /\ prior' = <<[log |-> log, streamEvents |-> streamEvents,
                   agentEvents |-> agentEvents]>>
    /\ pc' = "idle"
    /\ agentEvents' = <<>>
    /\ streamEvents' = <<>>
    /\ log' = <<>>
    /\ attempt' = 0
    /\ response_text' = <<>>
    /\ final_response' = <<>>
    /\ UNCHANGED <<maxRetries, message, client, handles, usage, finish_reason,
                   tool_calls, clock, sleepFor, cli, ctx, call, tasks,
                   usages>>

\* The transport does in the second run what it did in the first: the same
\* outcome of get_client, the same chunks and the same outcome per attempt.
Replaying ==
    LET p == prior[1]
    IN  /\ Len(log) <= Len(p.log)
        /\ \A i \in 1..Len(log) :
              IF log[i].outcome = "running"
              THEN IsPrefix(log[i].chunks, p.log[i].chunks)
              ELSE /\ log[i].outcome = p.log[i].outcome
                   /\ log[i].chunks = p.log[i].chunks
        /\ p.log = <<>> => pc \in {"idle", "get_client", "done"}
        /\ pc = "done" => Len(log) = Len(p.log)

\* The chunks of the requests that are run twice: the text and usage chunks,
\* and the chunk carrying a whole tool call.
ReplayChunks ==
    {c \in Chunks : \A i \in 1..Len(c.tool_calls) : c.tool_calls[i].index = 1}

\* A step of the pipeline, in the first or in the second run.
ReplayStep ==
    \/ Run
    \/ GetClient
    \/ GetClientRaises
    \/ CreateStream
    \/ \E kind \in ErrKinds : CreateRaises(kind)
    \/ \E chunk \in ReplayChunks : RecvChunk(chunk)
    \/ \E kind \in ErrKinds : StreamRaises(kind)
    \/ Exhausted
    \/ Wake

ReplayNext ==
    \/ prior = <<>> /\ ReplayStep
    \/ RunAgain
    \/ prior # <<>> /\ ReplayStep /\ Replaying'

ReplaySpec == Init /\ [][ReplayNext]_vars

\* C14: a second request through the same Agent, with the same message and a
\* transport that does what it did for the first (same chunks, same failures),
\* yields the events of the first, as chat_completion's events and as the
\* run's: at every point those yielded so far are a prefix of the first
\* run's, and at the end they are equal.
C14_SameEventsOnReplay ==
    prior # <<>> =>
        /\ IsPrefix(streamEvents, prior[1].streamEvents)
        /\ IsPrefix(agentEvents, prior[1].agentEvents)
        /\ pc = "done" =>
              /\ streamEvents = prior[1].streamEvents
              /\ agentEvents = prior[1].agentEvents

C14_Witness ==
    /\ prior # <<>>
    /\ pc = "done"
    /\ Len(log) = 2
    /\ log[1].outcome = "RateLimitError"
    /\ log[1].chunks # <<>>
    /\ log[2].outcome = "ok"
    /\ Count(agentEvents, "text_delta") = 2
    /\ agentEvents = prior[1].agentEvents
    /\ handles = <<"open">>

-----------------------------------------------------------------------------
(* The ContextManager *)

MaxMessages == 3

SystemPrompts == {"", "You are an agent."}

Contents == {"", "hi"}

ToolCallIds == {"call_0"}

\* A MessageItem; tool_calls keeps its default, the empty list.
MessageItem(role, content, tool_call_id) ==
    [role |-> role, content |-> content, tool_call_id |-> tool_call_id]

\* The dict of a message; a key the dict lacks has the value None.
MessageDict(role, content, tool_call_id) ==
    [role |-> role, content |-> content, tool_call_id |-> tool_call_id]

\* MessageItem.to_dict: tool_call_id and content are left out when not truthy.
to_dict(item) ==
    MessageDict(item.role,
                IF item.content # "" THEN item.content ELSE None,
                IF Truthy(item.tool_call_id) THEN item.tool_call_id ELSE None)

\* ContextManager.get_messages: the loop over _messages is inside the test of
\* the system prompt.
get_messages(c) ==
    IF c.system_prompt # ""
    THEN <<MessageDict("system", c.system_prompt, None)>>
         \o [i \in 1..Len(c.messages) |-> to_dict(c.messages[i])]
    ELSE <<>>

CtxInit ==
    /\ maxRetries = MaxRetries
    /\ message \in Messages
    /\ NewAgent
    /\ cli = NoCli
    /\ call = NoCall
    /\ tasks = NoTasks
    /\ usages = <<>>
    /\ ctx \in [system_prompt : SystemPrompts, messages : {<<>>}]

add_user_message(content) ==
    /\ Len(ctx.messages) < MaxMessages
    /\ ctx' = [ctx EXCEPT !.messages =
                  Append(@, MessageItem("user", content, None))]
    /\ UNCHANGED <<pipeVars, cli, prior, call, tasks, usages>>

\* content or "": None and "" give the same item.
add_assistant_message(content) ==
    /\ Len(ctx.messages) < MaxMessages
    /\ ctx' = [ctx EXCEPT !.messages =
                  Append(@, MessageItem("assistant",
                                        IF Truthy(content) THEN content ELSE "",
                                        None))]
    /\ UNCHANGED <<pipeVars, cli, prior, call, tasks, usages>>

add_tool_result(tool_call_id, content) ==
    /\ Len(ctx.messages) < MaxMessages
    /\ ctx' = [ctx EXCEPT !.messages =
                  Append(@, MessageItem("tool", content, tool_call_id))]
    /\ UNCHANGED <<pipeVars, cli, prior, call, tasks, usages>>

CtxNext ==
    \/ \E content \in Contents : add_user_message(content)
    \/ \E content \in Contents \cup {None} : add_assistant_message(content)
    \/ \E id \in ToolCallIds, content \in Contents :
          add_tool_result(id, content)

CtxSpec == CtxInit /\ [][CtxNext]_vars

\* C16 as stated: after any sequence of add_user_message,
\* add_assistant_message and add_tool_result, get_messages returns the system
\* prompt first when there is one, then every appended message in insertion
\* order; without a system prompt it returns the appended messages alone, in
\* insertion order.
C16_SystemFirstThenInsertionOrder ==
    get_messages(ctx)
        = (IF ctx.system_prompt # ""
           THEN <<MessageDict("system", ctx.system_prompt, None)>> ELSE <<>>)
          \o [i \in 1..Len(ctx.messages) |-> to_dict(ctx.messages[i])]

-----------------------------------------------------------------------------
(* The request of a chat_completion call *)

MaxTools == 2

DefaultModel == "qwen/qwen3-coder:free"

DefaultParameters == "{type: object, properties: {}}"

\* A tool given by the caller; a key the dict lacks has the value None.
ToolDicts ==
    [name : {"lookup"}, description : {None, "Looks things up"},
     parameters : {None, "{type: object, properties: {q: string}}"}]

ToolLists ==
    UNION {[1..n -> ToolDicts] : n \in 0..MaxTools}

NoKwargs == [k \in {} |-> None]

KwargsSets == {NoKwargs, [k \in {"temperature"} |-> "0.2"]}

\* LLMClient._build_tools
build_tools(tools) ==
    [i \in 1..Len(tools) |->
        [type |-> "function",
         function |->
            [name |-> tools[i].name,
             description |-> IF tools[i].description # None
                             THEN tools[i].description ELSE "",
             parameters |-> IF tools[i].parameters # None
                            THEN tools[i].parameters
                            ELSE DefaultParameters]]]

\* chat_completion builds api_kwargs from model, messages, stream and kwargs,
\* a key of kwargs overriding; then, when tools is not empty, it sets "tools"
\* in api_kwargs.  The request is kept as its keys, the list of tool schemas
\* under "tools", and the values of the other keys (options).
ApiKwargs(messages, stream, tools, model, kwargs) ==
    LET base == [k \in {"model", "messages", "stream"} |->
                    CASE k = "model" -> model
                      [] k = "messages" -> messages
                      [] OTHER -> IF stream THEN "True" ELSE "False"]
        opts == [k \in DOMAIN base \cup DOMAIN kwargs |->
                    IF k \in DOMAIN kwargs THEN kwargs[k] ELSE base[k]]
    IN  [options |-> opts,
         keys |-> DOMAIN opts
                  \cup (IF tools # <<>> THEN {"tools"} ELSE {}),
         tools |-> IF tools # <<>> THEN build_tools(tools) ELSE <<>>]

\* chat_completion, when tools is not empty, sets "tool_choice" in kwargs,
\* after api_kwargs was built from it.
KwargsAfter(tools, kwargs) ==
    IF tools # <<>>
    THEN [k \in DOMAIN kwargs \cup {"tool_choice"} |->
             IF k = "tool_choice" THEN "auto" ELSE kwargs[k]]
    ELSE kwargs

ReqInit ==
    /\ maxRetries = MaxRetries
    /\ message \in Messages
    /\ NewAgent
    /\ cli = NoCli
    /\ ctx = NoContext
    /\ tasks = NoTasks
    /\ usages = <<>>
    /\ call \in [tools : ToolLists, stream : BOOLEAN, kwargs : KwargsSets,
                 request : {<<>>}]

\* chat_completion(messages, stream, tools, **kwargs) is called and builds
\* the request it hands to client.chat.completions.create.
BuildRequest ==
    /\ call.request = <<>>
    /\ call' = [call EXCEPT
                  !.request = <<ApiKwargs(message, call.stream, call.tools,
                                          DefaultModel, call.kwargs)>>,
                  !.kwargs = KwargsAfter(call.tools, call.kwargs)]
    /\ UNCHANGED <<pipeVars, cli, prior, ctx, tasks, usages>>

ReqNext == BuildRequest

ReqSpec == ReqInit /\ [][ReqNext]_vars

\* C17 as stated: with a non-empty tools list the request handed to the
\* transport carries the converted tool schemas and tool_choice "auto";
\* with no tools it carries neither.
C17_ToolsAndToolChoice ==
    call.request # <<>> =>
        LET r == call.request[1]
        IN  IF call.tools # <<>>
            THEN /\ "tools" \in r.keys
                 /\ r.tools = build_tools(call.tools)
                 /\ "tool_choice" \in r.keys
                 /\ r.options["tool_choice"] = "auto"
            ELSE /\ "tools" \notin r.keys
                 /\ "tool_choice" \notin r.keys

-----------------------------------------------------------------------------
(* Tool-call fragments: names and ids *)

\* The names of the fragments that are, for their index, the first to carry
\* a non-empty name, in arrival order.
RECURSIVE FirstNames(_, _)
FirstNames(frags, named) ==
    IF frags = <<>> THEN <<>>
    ELSE LET f == Head(frags)
         IN  IF f.function /\ Truthy(f.name) /\ f.index \notin named
             THEN <<f.name>> \o FirstNames(Tail(frags), named \cup {f.index})
             ELSE FirstNames(Tail(frags), named)

\* C19 as stated: in an attempt, one ToolCallStarted is emitted per index
\* that received a name, at the first fragment of the index carrying a
\* non-empty name, be it the first fragment of the index or a later one.
C19_StartedAtFirstName ==
    log # <<>> =>
        LET starts == OfType(YieldedIn(Len(log)), "tool_call_start")
        IN  [k \in 1..Len(starts) |-> starts[k].name]
                = FirstNames(Frags(Last(log).chunks), {})

\* The first non-empty id, and name, among the fragments of an index.
FirstId(frags, idx) ==
    LET s == SelectSeq(frags, LAMBDA f : f.index = idx /\ Truthy(f.id))
    IN  IF s = <<>> THEN "" ELSE s[1].id

FirstName(frags, idx) ==
    LET s == SelectSeq(frags, LAMBDA f : /\ f.index = idx
                                         /\ f.function
                                         /\ Truthy(f.name))
    IN  IF s = <<>> THEN "" ELSE s[1].name

\* C20 as stated: the assembled record of an index has as callId and as name
\* the first non-empty value seen for that field among the fragments of the
\* index, in arrival order, also when the first fragment had none.
C20_FirstNonEmptyWins ==
    (pc = "streaming" \/ Succeeded) =>
        LET frags == Frags(Last(log).chunks)
        IN  \A k \in 1..Len(tool_calls) :
                /\ tool_calls[k].id = FirstId(frags, tool_calls[k].index)
                /\ tool_calls[k].name = FirstName(frags, tool_calls[k].index)

-----------------------------------------------------------------------------
(* The end of a stream *)

\* The entries of an assembly table, by ascending index.
RECURSIVE AscendingByIndex(_)
AscendingByIndex(tc) ==
    IF tc = <<>> THEN <<>>
    ELSE LET least == CHOOSE e \in {tc[i] : i \in 1..Len(tc)} :
                         \A i \in 1..Len(tc) : e.index <= tc[i].index
         IN  <<least>>
             \o AscendingByIndex(SelectSeq(tc, LAMBDA e : e.index # least.index))

\* C21 as stated: when the stream is exhausted without error, one
\* ToolCallCompleted is emitted per index seen in the attempt, in ascending
\* index order whatever the order in which the indices first arrived, and
\* all of them come before the completion event.
C21_CompletedInAscendingIndexOrder ==
    Succeeded =>
        LET done == OfType(YieldedIn(Len(log)), "tool_call_complete")
            asc == AscendingByIndex(tool_calls)
            n == Len(streamEvents)
        IN  /\ Len(done) = Len(asc)
            /\ \A k \in 1..Len(done) :
                  /\ done[k].call_id = asc[k].id
                  /\ done[k].name = asc[k].name
                  /\ streamEvents[n - Len(done) - 1 + k] = done[k]
            /\ streamEvents[n].type = "message_complete"

\* The usage record with every count at zero.
ZeroUsage == TokenUsage(0, 0, 0, 0)

\* The last usage snapshot among the given chunks, as the TokenUsage the code
\* builds from it; none when no chunk carried usage.
LastUsage(chunks) ==
    LET with == SelectSeq(chunks, LAMBDA c : c.usage # NoUsage)
        w == with[Len(with)].usage[1]
    IN  IF with = <<>> THEN NoUsage
        ELSE <<TokenUsage(w.prompt_tokens, 0, w.total_tokens,
                          IF w.details THEN w.cached_tokens ELSE 0)>>

\* The finish reason of the last chunk that had one; None when none had.
LastFinishReason(chunks) ==
    LET with == SelectSeq(chunks, LAMBDA c : c.choices
                                             /\ Truthy(c.finish_reason))
    IN  IF with = <<>> THEN None ELSE with[Len(with)].finish_reason

\* C22 as stated: the completion event of a successful attempt carries the
\* finish reason of the last chunk that had one and the last usage snapshot
\* of the attempt, and the all-zero usage record when no chunk carried usage.
C22_CompletionCarriesFinishAndUsage ==
    Succeeded =>
        LET end == Last(streamEvents)
            u == LastUsage(Last(log).chunks)
        IN  /\ end.type = "message_complete"
            /\ end.finish_reason = LastFinishReason(Last(log).chunks)
            /\ end.usage = (IF u = NoUsage THEN <<ZeroUsage>> ELSE u)

\* C23: a chunk carrying a finish reason does not end the stream: no
\* completion event is emitted while the stream is consumed, whatever finish
\* reason is recorded, and the text of the finish-reason chunk and of the
\* chunks after it is emitted like any other; the one completion event is
\* emitted once the transport is exhausted, after the events of every chunk
\* of the attempt.
C23_FinishReasonDoesNotEndStream ==
    /\ pc = "streaming" =>
          /\ Count(YieldedIn(Len(log)), "message_complete") = 0
          /\ DeltaText(YieldedIn(Len(log))) = SentText(Last(log).chunks)
    /\ Succeeded =>
          LET got == YieldedIn(Len(log))
              own == StreamOver(FreshStream, Last(log).chunks).events
          IN  /\ Last(got).type = "message_complete"
              /\ Count(got, "message_complete") = 1
              /\ DeltaText(got) = SentText(Last(log).chunks)
              /\ Len(own) < Len(got)
              /\ SubSeq(got, 1, Len(own)) = own
              /\ \A j \in (Len(own) + 1)..(Len(got) - 1) :
                    got[j].type = "tool_call_complete"

C23_Witness ==
    /\ Succeeded
    /\ Len(log) = 1
    /\ Len(log[1].chunks) = 2
    /\ log[1].chunks[1].finish_reason = "length"
    /\ log[1].chunks[1].content = <<"?">>
    /\ log[1].chunks[2].tool_calls # <<>>
    /\ Count(streamEvents, "text_delta") = 1
    /\ Count(streamEvents, "tool_call_start") = 1
    /\ Last(streamEvents).finish_reason = "length"

\* C24: a chunk with no choices produces no stream event: the events of an
\* attempt are those of its chunks that have choices; the usage snapshot such
\* a chunk carries is recorded all the same, and the completion event reports
\* the last snapshot of the attempt, whichever chunk carried it, the last
\* chunk or an earlier one.
C24_NoChoicesChunkOnlyRecordsUsage ==
    /\ pc = "streaming" =>
          /\ YieldedIn(Len(log))
                = StreamOver(FreshStream,
                             SelectSeq(Last(log).chunks,
                                       LAMBDA c : c.choices)).events
          /\ usage = LastUsage(Last(log).chunks)
    /\ Succeeded =>
          /\ Last(streamEvents).type = "message_complete"
          /\ Last(streamEvents).usage = LastUsage(Last(log).chunks)
          /\ Len(YieldedIn(Len(log))) - Len(tool_calls) - 1
                = Len(StreamOver(FreshStream,
                                 SelectSeq(Last(log).chunks,
                                           LAMBDA c : c.choices)).events)

C24_Witness ==
    /\ Succeeded
    /\ Len(log) = 1
    /\ Len(log[1].chunks) = 2
    /\ ~log[1].chunks[1].choices
    /\ log[1].chunks[1].usage # NoUsage
    /\ log[1].chunks[2].usage = NoUsage
    /\ log[1].chunks[2].content = <<"!">>
    /\ Len(streamEvents) = 2
    /\ streamEvents[1].type = "text_delta"
    /\ streamEvents[2].usage = <<TokenUsage(5, 0, 7, 2)>>

\* C25: each attempt starts with an empty assembly table, no finish reason
\* and no usage; the table, the ToolCallCompleted records and the completion
\* event of an attempt are built from the chunks of that attempt alone,
\* whatever fragments, finish reason or usage an earlier, failed attempt
\* delivered.
C25_AttemptStartsEmpty ==
    /\ (pc = "streaming" /\ Last(log).chunks = <<>>) =>
          /\ tool_calls = <<>>
          /\ finish_reason = None
          /\ usage = NoUsage
    /\ (pc = "streaming" \/ Succeeded) =>
          /\ usage = LastUsage(Last(log).chunks)
          /\ finish_reason = LastFinishReason(Last(log).chunks)
          /\ [k \in 1..Len(tool_calls) |-> tool_calls[k].index]
                = IndexOrder(Frags(Last(log).chunks), {})
    /\ Succeeded =>
          LET done == OfType(YieldedIn(Len(log)), "tool_call_complete")
          IN  /\ Len(done) = Len(IndexOrder(Frags(Last(log).chunks), {}))
              /\ Last(streamEvents).usage = LastUsage(Last(log).chunks)
              /\ Last(streamEvents).finish_reason
                    = LastFinishReason(Last(log).chunks)

C25_Witness ==
    /\ Succeeded
    /\ Len(log) = 2
    /\ log[1].outcome = "APIConnectionError"
    /\ Len(log[1].chunks) = 1
    /\ log[1].chunks[1].usage # NoUsage
    /\ log[1].chunks[1].finish_reason = "length"
    /\ Len(log[2].chunks) = 1
    /\ log[2].chunks[1].tool_calls # <<>>
    /\ Last(streamEvents).usage = NoUsage
    /\ Last(streamEvents).finish_reason = None
    /\ Count(streamEvents, "tool_call_complete") = 1

\* C26: events are forwarded as they arrive: at every point, also while a
\* failed attempt's backoff is awaited and before the next attempt starts,
\* the consumer has received, as text deltas in order, the text of every
\* chunk the transport has delivered so far in any attempt, a repeated text
\* included; and no step takes back an event: the events yielded by
\* chat_completion and by the run only grow at their end.
C26_ForwardedNeverRetracted ==
    /\ [](/\ DeltaText(agentEvents) = SentTextUpTo(Len(log))
          /\ DeltaText(streamEvents) = SentTextUpTo(Len(log))
          /\ Count(agentEvents, "text_delta") = Count(streamEvents, "text_delta"))
    /\ [][/\ IsPrefix(agentEvents, agentEvents')
          /\ IsPrefix(streamEvents, streamEvents')]_vars

C26_Witness ==
    /\ pc = "streaming"
    /\ Len(log) = 2
    /\ log[1].outcome = "RateLimitError"
    /\ log[1].chunks = log[2].chunks
    /\ DeltaText(agentEvents) = <<"H", "i", "H", "i">>
    /\ Count(agentEvents, "text_delta") = 2

\* The classes of the exceptions malformed wire data raises while the
\* stream is iterated: the client library's response validation error, an
\* APIError, or an error of the decoding itself, caught as Exception.
DecodeFailures == {"APIError", "Exception"}

\* C27 as stated: a decode failure is fatal for its attempt only: when it
\* happens on attempt k < maxRetries, a further attempt is made and no error
\* event ends the request.  (An attempt that had received chunks failed
\* while its stream was iterated.)
C27_DecodeFailureRetried ==
    \A i \in 1..Len(log) :
        (/\ log[i].outcome \in DecodeFailures
         /\ log[i].chunks # <<>>
         /\ i - 1 < maxRetries) =>
            /\ i < Len(log) \/ pc \in {"attempt", "sleeping"}
            /\ Count(streamEvents, "error") = 0

-----------------------------------------------------------------------------
(* The agent's events at the end of a stream *)

\* C28: the agent answers MESSAGE_COMPLETE with exactly one TEXT_COMPLETE when
\* the text it has accumulated is non-empty and with none when it is empty;
\* a run that completes with no text yields AGENT_START and then AGENT_END
\* with an empty payload and no error, and nothing else.
C28_TextCompleteIffText ==
    LET text == DeltaText(agentEvents)
        completed == Count(streamEvents, "message_complete") = 1
    IN  /\ Count(agentEvents, "text_complete") =
               (IF completed /\ text # <<>> THEN 1 ELSE 0)
        /\ (Succeeded /\ text = <<>>) =>
               agentEvents = <<agent_start(message), agent_end(<<>>)>>

\* A run completes with no text after a stream that carried a tool call.
C28_Witness ==
    /\ Succeeded
    /\ DeltaText(agentEvents) = <<>>
    /\ Count(streamEvents, "tool_call_complete") = 1
    /\ Count(streamEvents, "message_complete") = 1
    /\ Len(agentEvents) = 2

\* C29: a run yields at most one AGENT_ERROR; when it does, the error is
\* followed by AGENT_END and by nothing else, so that no TEXT_DELTA and no
\* TEXT_COMPLETE comes after it, and the run has no TEXT_COMPLETE at all.
C29_ErrorThenOnlyEnd ==
    /\ Count(agentEvents, "agent_error") <= 1
    /\ \A i \in 1..Len(agentEvents) :
           agentEvents[i].type = "agent_error" =>
               /\ \A j \in (i + 1)..Len(agentEvents) :
                      /\ agentEvents[j].type = "agent_end"
                      /\ j = i + 1
               /\ pc = "done" => Len(agentEvents) = i + 1
               /\ Count(agentEvents, "text_complete") = 0

\* A run fails after text was delivered: the deltas, the error, the end.
C29_Witness ==
    /\ Failed
    /\ Count(agentEvents, "text_delta") = 2
    /\ agentEvents[Len(agentEvents) - 1].type = "agent_error"
    /\ Last(agentEvents).type = "agent_end"

\* C33: the payload of every TEXT_COMPLETE is the concatenation, in the order
\* of emission, of the contents of all TEXT_DELTA events the run emitted
\* before it, those of attempts that failed and were retried included.
C33_TextCompleteIsAllDeltas ==
    \A i \in 1..Len(agentEvents) :
        agentEvents[i].type = "text_complete" =>
            agentEvents[i].content = DeltaText(SubSeq(agentEvents, 1, i - 1))

\* An attempt streamed text and failed, the retry streamed a different text
\* and completed: TEXT_COMPLETE carries both.
C33_Witness ==
    /\ Succeeded
    /\ Len(log) = 2
    /\ log[1].outcome \in Retryable
    /\ SentText(log[1].chunks) # <<>>
    /\ SentText(log[2].chunks) # <<>>
    /\ SentText(log[1].chunks) # SentText(log[2].chunks)
    /\ agentEvents[Len(agentEvents) - 1] =
           text_complete(SentText(log[1].chunks) \o SentText(log[2].chunks))

\* C34: run never raises to its consumer. Every run that is over ended with
\* AGENT_END; an exception that chat_completion did not turn into an ERROR
\* event (the one get_client raises before the try) became exactly one
\* AGENT_ERROR, followed by AGENT_END, and every AGENT_ERROR without an ERROR
\* event stems from such an exception.
C34_RunNeverRaises ==
    pc = "done" =>
        /\ Last(agentEvents).type = "agent_end"
        /\ log = <<>> =>
               /\ streamEvents = <<>>
               /\ Len(agentEvents) = 3
               /\ agentEvents[1] = agent_start(message)
               /\ agentEvents[2].type = "agent_error"
               /\ agentEvents[2].details = "_agentic_loop"
               /\ agentEvents[3] = agent_end(<<>>)
        /\ log # <<>> =>
               Count(agentEvents, "agent_error") = Count(streamEvents, "error")

\* get_client raised: the run is AGENT_START, AGENT_ERROR, AGENT_END.
C34_Witness ==
    /\ pc = "done"
    /\ log = <<>>
    /\ client = "none"
    /\ Count(agentEvents, "agent_error") = 1
    /\ Last(agentEvents).type = "agent_end"

-----------------------------------------------------------------------------
(* The agent and the tool-call events *)

ToolCallEvents == {"tool_call_start", "tool_call_delta", "tool_call_complete"}

\* The calls _agentic_loop makes on a tool registry for one stream event. The
\* Agent holds an LLMClient and nothing else, and the if/elif chain over
\* event.type has a branch for TEXT_DELTA, MESSAGE_COMPLETE and ERROR only:
\* an event of any other type falls through it.
RegistryCallsFor(ev) ==
    CASE ev.type = "text_delta" -> <<>>
      [] ev.type = "message_complete" -> <<>>
      [] ev.type = "error" -> <<>>
      [] OTHER -> <<>>

\* The calls made on a tool registry while the events evs are consumed.
RegistryCalls(evs) == Flatten([i \in 1..Len(evs) |-> RegistryCallsFor(evs[i])])

\* C30 as stated: every tool-call event the agent receives from the stream is
\* forwarded to the tool registry, in the order received, and each
\* TOOL_CALL_COMPLETE leads to one execute call for that tool call.
C30_ToolEventsForwarded ==
    LET received == SelectSeq(streamEvents, LAMBDA e : e.type \in ToolCallEvents)
        calls == RegistryCalls(streamEvents)
        executes == SelectSeq(calls, LAMBDA c : c.method = "execute")
    IN  /\ Len(calls) >= Len(received)
        /\ Len(executes) = Count(streamEvents, "tool_call_complete")
        /\ \A i \in 1..Len(executes) :
               executes[i].call_id =
                   OfType(streamEvents, "tool_call_complete")[i].call_id

-----------------------------------------------------------------------------
(* LLMClient.get_client and LLMClient.close, called by coroutines that share
   one LLMClient on one event loop *)

\* The calls of get_client and close that are made in a behaviour.
MaxCalls == 5

\* The coroutines that may be suspended inside close at the same time.
MaxTasks == 2

\* Mutant: get_client creates a handle on every call.
get_client_always_creates(c, hs) ==
    [client |-> "open", handles |-> Append(hs, "open"), ret |-> Len(hs) + 1]

\* get_client when AsyncOpenAI(...) does not raise: the LLMClient's handle
\* afterwards, the handles created so far, and the handle returned. A handle
\* is named by its position in hs; the one the LLMClient holds is the last.
get_client(c, hs) ==
    IF c = "none"
    THEN [client |-> "open", handles |-> Append(hs, "open"),
          ret |-> Len(hs) + 1]
    ELSE [client |-> c, handles |-> hs, ret |-> Len(hs)]

\* One entry of tasks.trace: the call that returned, the handle it returned
\* or dropped (0: none), and the handles created so far.
Called(op, handle, made) == [op |-> op, handle |-> handle, made |-> made]

ClientInit ==
    /\ maxRetries = MaxRetries
    /\ message \in Messages
    /\ NewAgent
    /\ cli = NoCli
    /\ ctx = NoContext
    /\ call = NoCall
    /\ tasks = NoTasks
    /\ usages = <<>>

\* The calls still to return fit in the trace.
MayCall == Len(tasks.trace) + tasks.closing < MaxCalls

\* A coroutine calls get_client: the method has no await, it runs to its
\* return without any other coroutine running.
TaskGetClient ==
    /\ MayCall
    /\ LET g == get_client(client, handles)
       IN  /\ client' = g.client
           /\ handles' = g.handles
           /\ tasks' = [tasks EXCEPT !.trace =
                           Append(@, Called("get_client", g.ret,
                                            Len(g.handles)))]
    /\ UNCHANGED <<pc, maxRetries, message, attempt, usage, finish_reason,
                   tool_calls, response_text, final_response, streamEvents,
                   agentEvents, clock, sleepFor, log, cli, prior, ctx, call, usages>>

\* A coroutine calls get_client and AsyncOpenAI(...) raises: the exception is
\* logged and raised again, _client stays None.
TaskGetClientRaises ==
    /\ MayCall
    /\ client = "none"
    /\ tasks' = [tasks EXCEPT !.trace =
                    Append(@, Called("get_client_raises", 0, Len(handles)))]
    /\ UNCHANGED <<pipeVars, cli, prior, ctx, call, usages>>

\* A coroutine calls close while the LLMClient holds no handle: the body of
\* the if is skipped and close returns.
TaskCloseNoHandle ==
    /\ MayCall
    /\ client = "none"
    /\ tasks' = [tasks EXCEPT !.trace =
                    Append(@, Called("close", 0, Len(handles)))]
    /\ UNCHANGED <<pipeVars, cli, prior, ctx, call, usages>>

\* A coroutine calls close while the LLMClient holds a handle: it calls the
\* handle's close and is suspended at the await.
TaskCloseBegin ==
    /\ MayCall
    /\ tasks.closing < MaxTasks
    /\ client = "open"
    /\ handles' = [handles EXCEPT ![Len(handles)] = "closed"]
    /\ tasks' = [tasks EXCEPT !.closing = @ + 1]
    /\ UNCHANGED <<pc, maxRetries, message, client, attempt, usage,
                   finish_reason, tool_calls, response_text, final_response,
                   streamEvents, agentEvents, clock, sleepFor, log, cli,
                   prior, ctx, call, usages>>

\* The await of a close returns: _client = None, whatever _client is by now.
TaskCloseEnd ==
    /\ tasks.closing > 0
    /\ client' = "none"
    /\ tasks' = [closing |-> tasks.closing - 1,
                 trace |-> Append(tasks.trace,
                               Called("close",
                                      IF client = "open" THEN Len(handles)
                                      ELSE 0,
                                      Len(handles)))]
    /\ UNCHANGED <<pc, maxRetries, message, attempt, usage, finish_reason,
                   tool_calls, response_text, final_response, streamEvents,
                   agentEvents, clock, sleepFor, log, handles, cli, prior,
                   ctx, call, usages>>

ClientNext ==
    \/ TaskGetClient
    \/ TaskGetClientRaises
    \/ TaskCloseNoHandle
    \/ TaskCloseBegin
    \/ TaskCloseEnd

ClientSpec == ClientInit /\ [][ClientNext]_vars

\* The handle the LLMClient holds after the first k calls of the trace, as
\* the callers saw it: the one the last get_client returned, none after a
\* close.
RECURSIVE Holding(_)
Holding(k) ==
    IF k = 0 THEN 0
    ELSE CASE tasks.trace[k].op = "get_client" -> tasks.trace[k].handle
           [] tasks.trace[k].op = "close" -> 0
           [] OTHER -> Holding(k - 1)

\* C31: get_client is an idempotent lazy initialiser, also when coroutines of
\* one event loop call it while others are inside close: a get_client that
\* finds no handle creates exactly one and returns it, every further
\* get_client returns that same handle and creates none, until a close drops
\* it; a close with no handle changes nothing; the get_client after a close
\* creates a handle that was never returned before.
C31_GetClientIdempotent ==
    /\ \A k \in 1..Len(tasks.trace) :
           LET e == tasks.trace[k]
               before == Holding(k - 1)
               madeBefore == IF k = 1 THEN 0 ELSE tasks.trace[k - 1].made
           IN  CASE e.op = "get_client" ->
                        IF before = 0
                        THEN e.made = madeBefore + 1 /\ e.handle = e.made
                        ELSE e.made = madeBefore /\ e.handle = before
                 [] e.op = "close" ->
                        e.made = madeBefore /\ e.handle = before
                 [] OTHER -> e.made = madeBefore
    /\ (client = "none") = (Holding(Len(tasks.trace)) = 0)
    /\ tasks.trace # <<>> => Len(handles) = Last(tasks.trace).made

\* Two get_client calls got the one handle, a close dropped it, a second
\* close found none, and the next get_client got a second handle.
C31_Witness ==
    /\ Len(tasks.trace) = 5
    /\ [i \in 1..5 |-> tasks.trace[i].op] =
           <<"get_client", "get_client", "close", "close", "get_client">>
    /\ [i \in 1..5 |-> tasks.trace[i].handle] = <<1, 1, 1, 0, 2>>
    /\ handles = <<"closed", "open">>

-----------------------------------------------------------------------------
(* TokenUsage.__add__ *)

\* The largest token count of an operand.
MaxTokens == 1

\* The TokenUsage objects of a behaviour: two operands and the sums.
MaxUsages == 3

TokenCounts == 0..MaxTokens

TokenUsages ==
    {TokenUsage(p, c, t, k) : p \in TokenCounts, c \in TokenCounts,
                              t \in TokenCounts, k \in TokenCounts}

\* Mutant: the sum keeps the left operand's completion_tokens.
TokenUsage_add_left_completion(a, b) ==
    TokenUsage(a.prompt_tokens + b.prompt_tokens,
               a.completion_tokens,
               a.total_tokens + b.total_tokens,
               a.cached_tokens + b.cached_tokens)

\* TokenUsage.__add__(self, other): the fields of the object it returns.
\* Python integers do not overflow.
TokenUsage_add(a, b) ==
    TokenUsage(a.prompt_tokens + b.prompt_tokens,
               a.completion_tokens + b.completion_tokens,
               a.total_tokens + b.total_tokens,
               a.cached_tokens + b.cached_tokens)

UsageInit ==
    /\ maxRetries = MaxRetries
    /\ message \in Messages
    /\ NewAgent
    /\ cli = NoCli
    /\ ctx = NoContext
    /\ call = NoCall
    /\ tasks = NoTasks
    /\ usages \in [1..2 -> TokenUsages]

\* usages[i] + usages[j] is evaluated: __add__ builds a new TokenUsage from
\* the fields of both and assigns to neither.
AddUsages ==
    /\ Len(usages) < MaxUsages
    /\ \E i \in 1..Len(usages), j \in 1..Len(usages) :
           usages' = Append(usages, TokenUsage_add(usages[i], usages[j]))
    /\ UNCHANGED <<pipeVars, cli, prior, ctx, call, tasks>>

UsageNext == AddUsages

UsageSpec == UsageInit /\ [][UsageNext]_vars

NonNegative(u) ==
    /\ u.prompt_tokens >= 0
    /\ u.completion_tokens >= 0
    /\ u.total_tokens >= 0
    /\ u.cached_tokens >= 0

\* The usages of the behaviour: the operands and the sums made so far.
Held == {usages[i] : i \in 1..Len(usages)}

\* The algebra of __add__ on the usages of the behaviour.
UsageAdditionLaws ==
    \A a \in Held :
        /\ TokenUsage_add(a, ZeroUsage) = a
        /\ TokenUsage_add(ZeroUsage, a) = a
        /\ \A b \in Held :
               /\ TokenUsage_add(a, b) = TokenUsage_add(b, a)
               /\ NonNegative(TokenUsage_add(a, b))
               /\ \A f \in DOMAIN a : TokenUsage_add(a, b)[f] = a[f] + b[f]
               /\ \A c \in Held :
                      TokenUsage_add(TokenUsage_add(a, b), c) =
                          TokenUsage_add(a, TokenUsage_add(b, c))

\* C32: TokenUsage addition is commutative and associative, the all-zero
\* usage is its identity, the sum of non-negative usages is non-negative and
\* is the element-wise sum of the four fields, and an addition leaves the
\* objects that exist unchanged: its result is a new object.
C32_UsageAddition ==
    /\ []UsageAdditionLaws
    /\ [][/\ Len(usages') = Len(usages) + 1
          /\ \A i \in 1..Len(usages) : usages'[i] = usages[i]]_vars

\* Two different usages with tokens in different fields were added, and their
\* sum was added to one of them again.
C32_Witness ==
    /\ Len(usages) = 3
    /\ usages[1] = TokenUsage(1, 0, 1, 0)
    /\ usages[2] = TokenUsage(0, 1, 1, 1)
    /\ usages[3] = TokenUsage(1, 1, 2, 1)

====
